---- MODULE Spec2Model ----
(***************************************************************************)
(* A model of mitsubishi.py: the ECHONET Lite message codec                *)
(* (BuildEchonetMsg, DecodeEchonetMsg), the UDP exchange (SendMessage)     *)
(* and node discovery (Discover).                                          *)
(*                                                                         *)
(* Python integers are unbounded, and BuildEchonetMsg accumulates the      *)
(* whole frame in one integer.  The model keeps such an integer as its     *)
(* sequence of hexadecimal digits, most significant first, without leading *)
(* zero digits (the empty sequence is 0), which is also what               *)
(* format(message, 'x') prints.                                            *)
(***************************************************************************)
EXTENDS Integers, Sequences, FiniteSets, TLC

VARIABLES
    caller,      \* which entry point runs: "codec", "decode" or "discover"
    pc,          \* position of the running call
    proc,        \* "running", or "terminated" once quit() has been called
    err,         \* exception that left the call, "none" when there is none
    request,     \* the dict handed to BuildEchonetMsg
    message,     \* result of BuildEchonetMsg: [outcome, value]
    wire,        \* the bytes handed to DecodeEchonetMsg
    rx,          \* result of DecodeEchonetMsg: [outcome, data]
    sock,        \* the socket of SendMessage: "none", "open", "bound", "closed"
    sent,        \* datagrams handed to sendto, in order
    recving,     \* TRUE once recvfrom has been called
    talking,     \* environment: nodes on the segment may still send datagrams
    net,         \* environment: datagrams queued on the socket, not yet received
    arrived,     \* environment: every datagram that reached the socket, in order
    data,        \* SendMessage's list of {'server', 'payload'}
    idx,         \* Discover's position in "for node in data" (next entry, from 1)
    dispatched,  \* the decoded replies that passed the test of lines 174-176
    eoa          \* Discover's list of echonet objects

vars == <<caller, pc, proc, err, request, message, wire, rx, sock, sent, recving,
          talking, net, arrived, data, idx, dispatched, eoa>>

-----------------------------------------------------------------------------
(* Bounds of the model *)

\* most property entries in a request drawn for BuildEchonetMsg
MaxOPC == 2
\* most datagrams SendMessage collects in one call
MaxReplies == 2
\* most datagrams waiting on the socket at one moment
MaxQueue == 2

-----------------------------------------------------------------------------
(* Constants of the program *)

ENL_PORT == 3610
ENL_MULTICAST_ADDRESS == "224.0.23.0"

\* The registries of the package (eojx.GROUP, eojx.CLASS, esv.CODES, epc.EHD1,
\* epc.EHD2): only their keys matter to the codec.
GROUP == {1, 14}
CLASS == [g \in GROUP |-> IF g = 14 THEN {240} ELSE {48, 53}]
CODES == {96, 97, 98, 113, 114, 115}
EHD1 == {16}
EHD2 == {129, 130}

-----------------------------------------------------------------------------
(* Unbounded integers as hexadecimal digit sequences *)

Min(a, b) == IF a < b THEN a ELSE b

Front(s) == SubSeq(s, 1, Len(s) - 1)

Zeros(n) == [i \in 1..n |-> 0]

\* the literal or small value n as an unbounded integer
RECURSIVE Big(_)
Big(n) == IF n = 0 THEN <<>> ELSE Append(Big(n \div 16), n % 16)

\* m << bits, bits a multiple of 4
Shl(m, bits) == IF m = <<>> THEN <<>> ELSE m \o Zeros(bits \div 4)

\* m + v, v a natural number
RECURSIVE Add(_, _)
Add(m, v) ==
    IF v = 0 THEN m
    ELSE IF m = <<>> THEN Big(v)
    ELSE LET s == m[Len(m)] + v
         IN  Append(Add(Front(m), s \div 16), s % 16)

\* (message << bits) + v
ShlAdd(m, bits, v) == Add(Shl(m, bits), v)

\* format(message, 'x'): the digits, "0" for zero
FormatX(m) == IF m = <<>> THEN <<0>> ELSE m

\* bytearray.fromhex(message): two digits a byte, ValueError on an odd count
FromHex(h) ==
    IF Len(h) % 2 = 1
    THEN [outcome |-> "ValueError", value |-> <<>>]
    ELSE [outcome |-> "return",
          value |-> [i \in 1..(Len(h) \div 2) |-> 16 * h[2 * i - 1] + h[2 * i]]]

-----------------------------------------------------------------------------
(* BuildEchonetMsg *)

\* one pass of "for values in data['OPC']", with the EDT shifted by one byte
\* whatever its PDC
BuildOPC_ShiftOneByte(m, values) ==
    LET m1 == ShlAdd(m, 8, values.EPC)
    IN  IF values.hasPDC
        THEN LET m2 == ShlAdd(m1, 8, values.PDC)
             IN  IF values.PDC > 0 THEN ShlAdd(m2, 8, values.EDT) ELSE m2
        ELSE ShlAdd(m1, 8, 0)

\* one pass of "for values in data['OPC']": EPC, then PDC (0 when the entry has
\* none), then the EDT, an integer, shifted in as PDC bytes
BuildOPC(m, values) ==
    LET m1 == ShlAdd(m, 8, values.EPC)
    IN  IF values.hasPDC
        THEN LET m2 == ShlAdd(m1, 8, values.PDC)
             IN  IF values.PDC > 0 THEN ShlAdd(m2, 8 * values.PDC, values.EDT) ELSE m2
        ELSE ShlAdd(m1, 8, 0)

RECURSIVE BuildOPCs(_, _)
BuildOPCs(m, OPC) ==
    IF OPC = <<>> THEN m
    ELSE BuildOPCs(BuildOPC(m, Head(OPC)), Tail(OPC))

\* data['TID'] after the defaulting of lines 29-30
DefaultTID(d) == IF d.hasTID THEN d ELSE [d EXCEPT !.hasTID = TRUE, !.TID = 1]

\* Every ValueError raised in the body is caught at line 71, printed, and
\* followed by quit(), which raises SystemExit.
BuildEchonetMsg(d) ==
    LET quit == [outcome |-> "SystemExit", value |-> <<>>]
        m0 == Big(4225)                                   \* 0x1081
        m1 == ShlAdd(m0, 16, DefaultTID(d).TID)
        m2 == ShlAdd(m1, 24, 392961)                      \* 0x05FF01
        m3 == ShlAdd(m2, 8, d.DEOJGC)
        m4 == ShlAdd(m3, 8, d.DEOJCC)
        m5 == ShlAdd(m4, 8, d.DEOJIC)
        m6 == ShlAdd(m5, 8, d.ESV)
        m7 == ShlAdd(m6, 8, Len(d.OPC))
    IN  IF d.hasTID /\ d.TID > 65535 THEN quit
        ELSE IF d.DEOJGC \notin GROUP THEN quit
        ELSE IF d.DEOJCC \notin CLASS[d.DEOJGC] THEN quit
        ELSE IF d.ESV \notin CODES THEN quit
        ELSE [outcome |-> "return", value |-> FormatX(BuildOPCs(m7, d.OPC))]

-----------------------------------------------------------------------------
(* DecodeEchonetMsg *)

\* byte[i], i counted from 0; the caller checks i < len(byte)
At(byte, i) == byte[i + 1]

\* byte[a:b]: a slice stops at the end of the input without raising
Slice(byte, a, b) ==
    IF a >= Min(b, Len(byte)) THEN <<>> ELSE SubSeq(byte, a + 1, Min(b, Len(byte)))

\* int.from_bytes(b, byteorder='big')
RECURSIVE FromBytes(_)
FromBytes(b) == IF b = <<>> THEN 0 ELSE 256 * FromBytes(Front(b)) + b[Len(b)]

NoData == [EHD1 |-> 0, EHD2 |-> 0, TID |-> 0, SEOJGC |-> 0, SEOJCC |-> 0, SEOJIC |-> 0,
           DEOJGC |-> 0, DEOJCC |-> 0, DEOJIC |-> 0, ESV |-> 0, OPC |-> <<>>]

\* The loop "while i < byte[11]": an index at or past the end of the input
\* raises IndexError, which "except ValueError" does not catch.
RECURSIVE DecodeOPC(_, _, _, _)
DecodeOPC(byte, i, epc_pointer, OPCs) ==
    IF ~(i < At(byte, 11)) THEN [outcome |-> "return", value |-> OPCs]
    ELSE LET pdc_pointer == epc_pointer + 1
             edt_pointer == pdc_pointer + 1
         IN  IF epc_pointer >= Len(byte) \/ pdc_pointer >= Len(byte)
             THEN [outcome |-> "IndexError", value |-> <<>>]
             ELSE LET pdc_len == At(byte, pdc_pointer)
                      end_pointer == edt_pointer + pdc_len
                      OPC == [EPC |-> At(byte, epc_pointer),
                              PDC |-> At(byte, pdc_pointer),
                              EDT |-> Slice(byte, edt_pointer, end_pointer)]
                  IN  DecodeOPC(byte, i + 1, end_pointer, Append(OPCs, OPC))

\* The reads happen in the order byte[0], byte[1], byte[2:4], byte[4] .. byte[11];
\* a header that is not in the registry raises ValueError, caught at line 117 and
\* followed by quit().
DecodeEchonetMsg(byte) ==
    LET IndexError == [outcome |-> "IndexError", data |-> NoData]
        quit == [outcome |-> "SystemExit", data |-> NoData]
    IN  IF Len(byte) <= 0 THEN IndexError
        ELSE IF At(byte, 0) \notin EHD1 THEN quit
        ELSE IF Len(byte) <= 1 THEN IndexError
        ELSE IF At(byte, 1) \notin EHD2 THEN quit
        ELSE IF Len(byte) <= 11 THEN IndexError
        ELSE LET OPCs == DecodeOPC(byte, 0, 12, <<>>)
             IN  IF OPCs.outcome = "IndexError" THEN IndexError
                 ELSE [outcome |-> "return",
                       data |-> [EHD1 |-> At(byte, 0), EHD2 |-> At(byte, 1),
                                 TID |-> FromBytes(Slice(byte, 2, 4)),
                                 SEOJGC |-> At(byte, 4), SEOJCC |-> At(byte, 5),
                                 SEOJIC |-> At(byte, 6),
                                 DEOJGC |-> At(byte, 7), DEOJCC |-> At(byte, 8),
                                 DEOJIC |-> At(byte, 9),
                                 ESV |-> At(byte, 10), OPC |-> OPCs.value]]

-----------------------------------------------------------------------------
(* Inputs *)

\* sequences over S of length 0 .. n
SeqUpTo(S, n) == UNION {[1..k -> S] : k \in 0..n}

\* entries of data['OPC']; an entry without 'PDC' has hasPDC = FALSE.  The last
\* one is not well formed: its EDT needs two bytes and its PDC says one.
PropertyEntries ==
    { [EPC |-> 214, hasPDC |-> FALSE, PDC |-> 0, EDT |-> 0],
      [EPC |-> 128, hasPDC |-> TRUE,  PDC |-> 0, EDT |-> 0],
      [EPC |-> 128, hasPDC |-> TRUE,  PDC |-> 1, EDT |-> 0],
      [EPC |-> 128, hasPDC |-> TRUE,  PDC |-> 1, EDT |-> 48],
      [EPC |-> 0,   hasPDC |-> TRUE,  PDC |-> 2, EDT |-> 5],
      [EPC |-> 179, hasPDC |-> TRUE,  PDC |-> 2, EDT |-> 16640],
      [EPC |-> 179, hasPDC |-> TRUE,  PDC |-> 1, EDT |-> 511] }

\* destination objects: two registered, one with an unregistered class, one
\* with an unregistered group
DestinationObjects == { <<14, 240>>, <<1, 48>>, <<1, 240>>, <<2, 0>> }

Requests ==
    { [hasTID |-> t[1], TID |-> t[2], DEOJGC |-> o[1], DEOJCC |-> o[2],
       DEOJIC |-> ic, ESV |-> e, OPC |-> opc] :
        t \in { <<FALSE, 0>>, <<TRUE, 0>>, <<TRUE, 1>>, <<TRUE, 65535>>, <<TRUE, 65536>> },
        o \in DestinationObjects,
        ic \in {0, 255},
        e \in {98, 97, 0},
        opc \in SeqUpTo(PropertyEntries, MaxOPC) }

NoRequest == [hasTID |-> FALSE, TID |-> 0, DEOJGC |-> 0, DEOJCC |-> 0,
              DEOJIC |-> 0, ESV |-> 0, OPC |-> <<>>]

\* Replies as a node on the segment may send them: header, TID, SEOJ, DEOJ
\* (the controller, 05 FF 01), ESV 0x72, OPC, then the properties.
ReplyHead(tid, seoj) == <<16, 129, 0, tid>> \o seoj \o <<5, 255, 1, 114>>

Good1      == ReplyHead(1, <<14, 240, 1>>) \o <<1, 214, 4, 1, 1, 48, 1>>
Good2      == ReplyHead(1, <<14, 240, 1>>) \o <<1, 214, 4, 1, 1, 53, 2>>
OtherTID   == ReplyHead(2, <<14, 240, 1>>) \o <<1, 214, 4, 1, 1, 48, 1>>
OtherClass == ReplyHead(1, <<14, 241, 1>>) \o <<1, 214, 4, 1, 1, 48, 1>>
OtherGroup == ReplyHead(1, <<1, 48, 1>>)   \o <<1, 214, 4, 1, 1, 48, 1>>
OtherEPC   == ReplyHead(1, <<14, 240, 1>>) \o <<1, 128, 1, 48>>
NoProperty == ReplyHead(1, <<14, 240, 1>>) \o <<0>>
TwoDeclared == ReplyHead(1, <<14, 240, 1>>) \o <<2, 214, 1, 0>>
Truncated  == ReplyHead(1, <<14, 240, 1>>) \o <<1, 214, 4, 1, 1>>
BadHeader  == <<32, 129>> \o SubSeq(Good1, 3, Len(Good1))
TooShort   == <<16, 129, 0, 1>>

Payloads == { Good1, Good2, OtherTID, OtherClass, OtherGroup, OtherEPC, NoProperty,
              TwoDeclared, Truncated, BadHeader, TooShort }

\* byte strings handed to DecodeEchonetMsg on its own: every prefix of a payload
RawInputs == UNION { { SubSeq(p, 1, n) : n \in 0..Len(p) } : p \in Payloads }

\* the node a payload comes from; server is the (address, port) pair recvfrom
\* returns
ServerOf(p) == IF p = Good2 THEN <<"192.168.1.11", 3610>> ELSE <<"192.168.1.10", 3610>>

Datagrams == { [server |-> ServerOf(p), payload |-> p] : p \in Payloads }

\* the request of Discover
tx_payload ==
    [hasTID |-> TRUE, TID |-> 1, DEOJGC |-> 14, DEOJCC |-> 240, DEOJIC |-> 0,
     ESV |-> 98, OPC |-> << [EPC |-> 214, hasPDC |-> FALSE, PDC |-> 0, EDT |-> 0] >>]

-----------------------------------------------------------------------------
(* Discover: the test and the dispatch of one decoded reply *)

\* lines 174-176 without the comparison of the source group
Accepts_NoGroupTest(r) ==
    IF r.TID = tx_payload.TID
    THEN IF r.OPC = <<>> THEN "IndexError"
         ELSE IF r.OPC[1].EPC = 214 THEN "accept" ELSE "skip"
    ELSE "skip"

\* lines 174-176: "and" stops at the first false operand, and rx['OPC'][0] on
\* an empty list raises IndexError
Accepts(r) ==
    IF tx_payload.DEOJGC = r.SEOJGC /\ r.TID = tx_payload.TID
    THEN IF r.OPC = <<>> THEN "IndexError"
         ELSE IF r.OPC[1].EPC = 214 THEN "accept" ELSE "skip"
    ELSE "skip"

\* The dispatch tables of the package (epc.CODE): the (group, class, property)
\* triples that have a decode function, and the (group, class) pairs that have
\* a device class.
CODE_EPC == { <<14, 240, 214>> }
CODE_class == { <<1, 48>>, <<1, 53>> }

NoDevice == [ip |-> "", eojgc |-> 0, eojcc |-> 0, instance |-> 0]

\* lines 179-183: look up the decode function of the reply's first property,
\* apply it to the EDT (an instance list: a count, then group, class and
\* instance of the first object), look up the class of that object and
\* construct it for the reply's address.  A missing key raises KeyError.
Dispatch(r, ip) ==
    LET EDT == r.OPC[1].EDT
    IN  IF <<r.SEOJGC, r.SEOJCC, r.OPC[1].EPC>> \notin CODE_EPC
        THEN [outcome |-> "KeyError", e |-> NoDevice]
        ELSE IF Len(EDT) < 4
        THEN [outcome |-> "IndexError", e |-> NoDevice]
        ELSE IF <<EDT[2], EDT[3]>> \notin CODE_class
        THEN [outcome |-> "KeyError", e |-> NoDevice]
        ELSE [outcome |-> "return",
              e |-> [ip |-> ip, eojgc |-> EDT[2], eojcc |-> EDT[3], instance |-> EDT[4]]]

\* line 150 with the new entry put first
Collect_Prepend(d, payload, server) ==
    <<[server |-> server, payload |-> payload]>> \o d

\* line 150: data.append({'server': server, 'payload': payload})
Collect(d, payload, server) ==
    Append(d, [server |-> server, payload |-> payload])

\* line 147 with "continue" in the place of "break"
AfterTimeout_Continue == "S_recv"

\* line 147: "break" leaves the loop for the finally clause
AfterTimeout == "S_finally"

-----------------------------------------------------------------------------
(* The state machine *)

NoMessage == [outcome |-> "none", value |-> <<>>]
NoRx == [outcome |-> "none", data |-> NoData]

Idle ==
    /\ proc = "running"
    /\ err = "none"
    /\ rx = NoRx
    /\ sock = "none"
    /\ sent = <<>>
    /\ recving = FALSE
    /\ talking = TRUE
    /\ net = <<>>
    /\ arrived = <<>>
    /\ data = <<>>
    /\ idx = 1
    /\ dispatched = <<>>
    /\ eoa = <<>>

\* a caller encodes a request and decodes the bytes it made
InitCodec ==
    /\ caller = "codec"
    /\ pc = "build"
    /\ request \in Requests
    /\ message = NoMessage
    /\ wire = <<>>
    /\ Idle

\* a caller decodes bytes it received
InitDecode ==
    /\ caller = "decode"
    /\ pc = "decode"
    /\ request = NoRequest
    /\ message = NoMessage
    /\ wire \in RawInputs
    /\ Idle

\* a caller runs Discover()
InitDiscover ==
    /\ caller = "discover"
    /\ pc = "D_build"
    /\ request = tx_payload
    /\ message = NoMessage
    /\ wire = <<>>
    /\ Idle

Init == InitCodec \/ InitDecode \/ InitDiscover

CodecUnchanged == <<caller, sock, sent, recving, talking, net, arrived, data, idx,
                    dispatched, eoa>>

\* message = BuildEchonetMsg(request)
CallBuildEchonetMsg ==
    /\ caller = "codec" /\ pc = "build"
    /\ LET m == BuildEchonetMsg(request)
       IN  /\ message' = m
           /\ IF m.outcome = "SystemExit"
              THEN pc' = "exit" /\ proc' = "terminated"
              ELSE pc' = "fromhex" /\ proc' = proc
    /\ request' = DefaultTID(request)
    /\ UNCHANGED <<err, wire, rx>>
    /\ UNCHANGED CodecUnchanged

\* wire = bytearray.fromhex(message)
CallFromHex ==
    /\ caller = "codec" /\ pc = "fromhex"
    /\ LET b == FromHex(message.value)
       IN  IF b.outcome = "ValueError"
           THEN pc' = "raised" /\ err' = "ValueError" /\ wire' = wire
           ELSE pc' = "decode" /\ err' = err /\ wire' = b.value
    /\ UNCHANGED <<proc, request, message, rx>>
    /\ UNCHANGED CodecUnchanged

\* rx = DecodeEchonetMsg(wire)
CallDecodeEchonetMsg ==
    /\ caller \in {"codec", "decode"} /\ pc = "decode"
    /\ LET r == DecodeEchonetMsg(wire)
       IN  /\ rx' = r
           /\ pc' = CASE r.outcome = "return" -> "done"
                      [] r.outcome = "SystemExit" -> "exit"
                      [] OTHER -> "raised"
           /\ proc' = IF r.outcome = "SystemExit" THEN "terminated" ELSE proc
           /\ err' = IF r.outcome = "IndexError" THEN "IndexError" ELSE err
    /\ UNCHANGED <<request, message, wire>>
    /\ UNCHANGED CodecUnchanged

\* line 167: message = BuildEchonetMsg(tx_payload)
DiscoverBuild ==
    /\ caller = "discover" /\ pc = "D_build"
    /\ LET m == BuildEchonetMsg(request)
       IN  /\ message' = m
           /\ IF m.outcome = "SystemExit"
              THEN pc' = "exit" /\ proc' = "terminated"
              ELSE pc' = "S_socket" /\ proc' = proc
    /\ request' = DefaultTID(request)
    /\ UNCHANGED <<caller, err, wire, rx, sock, sent, recving, talking, net, arrived,
                   data, idx, dispatched, eoa>>

\* line 129: sock = socket.socket(AF_INET, SOCK_DGRAM)
SocketCreate ==
    /\ caller = "discover" /\ pc = "S_socket"
    /\ sock' = "open"
    /\ pc' = "S_bind"
    /\ UNCHANGED <<caller, proc, err, request, message, wire, rx, sent, recving, talking,
                   net, arrived, data, idx, dispatched, eoa>>

\* line 130: sock.bind(('', ENL_PORT))
SocketBind ==
    /\ caller = "discover" /\ pc = "S_bind"
    /\ sock' = "bound"
    /\ pc' = "S_configure"
    /\ UNCHANGED <<caller, proc, err, request, message, wire, rx, sent, recving, talking,
                   net, arrived, data, idx, dispatched, eoa>>

\* line 130 when the port is taken: bind raises OSError, outside the try
\* statement, so the exception leaves SendMessage at once
SocketBindFails ==
    /\ caller = "discover" /\ pc = "S_bind"
    /\ err' = "OSError"
    /\ pc' = "S_raised"
    /\ UNCHANGED <<caller, proc, request, message, wire, rx, sock, sent, recving, talking,
                   net, arrived, data, idx, dispatched, eoa>>

\* lines 133-138: settimeout(0.5) and the multicast TTL
SocketConfigure ==
    /\ caller = "discover" /\ pc = "S_configure"
    /\ pc' = "S_sendto"
    /\ UNCHANGED <<caller, proc, err, request, message, wire, rx, sock, sent, recving,
                   talking, net, arrived, data, idx, dispatched, eoa>>

\* line 141: sock.sendto(bytearray.fromhex(message), transaction_group)
SendTo ==
    /\ caller = "discover" /\ pc = "S_sendto"
    /\ LET b == FromHex(message.value)
       IN  IF b.outcome = "ValueError"
           THEN /\ err' = "ValueError" /\ pc' = "S_finally" /\ sent' = sent
           ELSE /\ sent' = Append(sent, [to |-> <<ENL_MULTICAST_ADDRESS, ENL_PORT>>,
                                         payload |-> b.value])
                /\ pc' = "S_recv" /\ err' = err
    /\ UNCHANGED <<caller, proc, request, message, wire, rx, sock, recving, talking, net,
                   arrived, data, idx, dispatched, eoa>>

\* line 141 when the network is unreachable: sendto raises OSError inside the
\* try statement
SendToFails ==
    /\ caller = "discover" /\ pc = "S_sendto"
    /\ err' = "OSError"
    /\ pc' = "S_finally"
    /\ UNCHANGED <<caller, proc, request, message, wire, rx, sock, sent, recving, talking,
                   net, arrived, data, idx, dispatched, eoa>>

\* lines 145, 150: recvfrom returns the oldest waiting datagram
RecvFrom ==
    /\ caller = "discover" /\ pc = "S_recv"
    /\ net # <<>>
    /\ data' = Collect(data, Head(net).payload, Head(net).server)
    /\ net' = Tail(net)
    /\ recving' = TRUE
    /\ UNCHANGED <<caller, pc, proc, err, request, message, wire, rx, sock, sent, talking,
                   arrived, idx, dispatched, eoa>>

\* lines 146-147: nothing came for 0.5 s, recvfrom raises socket.timeout
RecvTimeout ==
    /\ caller = "discover" /\ pc = "S_recv"
    /\ net = <<>>
    /\ pc' = AfterTimeout
    /\ recving' = TRUE
    /\ UNCHANGED <<caller, proc, err, request, message, wire, rx, sock, sent, talking, net,
                   arrived, data, idx, dispatched, eoa>>

\* lines 151-153: sock.close(), then the pending exception or "return data"
SocketClose ==
    /\ caller = "discover" /\ pc = "S_finally"
    /\ sock' = "closed"
    /\ pc' = IF err = "none" THEN "D_loop" ELSE "S_raised"
    /\ UNCHANGED <<caller, proc, err, request, message, wire, rx, sent, recving, talking,
                   net, arrived, data, idx, dispatched, eoa>>

\* The segment: a node sends a datagram to port 3610 of the bound socket.
Arrive ==
    /\ sock = "bound" /\ talking
    /\ Len(net) < MaxQueue
    /\ Len(arrived) < MaxReplies
    /\ \E d \in Datagrams :
          /\ net' = Append(net, d)
          /\ arrived' = Append(arrived, d)
    /\ UNCHANGED <<caller, pc, proc, err, request, message, wire, rx, sock, sent, recving,
                   talking, data, idx, dispatched, eoa>>

\* lines 172-185: one pass of "for node in data"
DiscoverNode ==
    /\ caller = "discover" /\ pc = "D_loop"
    /\ idx <= Len(data)
    /\ LET node == data[idx]
           r == DecodeEchonetMsg(node.payload)
           a == IF r.outcome = "return" THEN Accepts(r.data) ELSE "none"
           d == IF a = "accept" THEN Dispatch(r.data, node.server[1])
                ELSE [outcome |-> "none", e |-> NoDevice]
       IN  /\ rx' = r
           /\ wire' = node.payload
           /\ proc' = IF r.outcome = "SystemExit" THEN "terminated" ELSE proc
           /\ dispatched' = IF a = "accept" THEN Append(dispatched, r.data) ELSE dispatched
           /\ eoa' = IF d.outcome = "return" THEN Append(eoa, d.e) ELSE eoa
           /\ CASE r.outcome = "SystemExit" ->
                     pc' = "exit" /\ err' = err /\ idx' = idx
                [] r.outcome = "IndexError" ->
                     pc' = "D_raised" /\ err' = "IndexError" /\ idx' = idx
                [] a = "IndexError" ->
                     pc' = "D_raised" /\ err' = "IndexError" /\ idx' = idx
                [] a = "accept" /\ d.outcome # "return" ->
                     pc' = "D_raised" /\ err' = d.outcome /\ idx' = idx
                [] OTHER ->
                     pc' = pc /\ err' = err /\ idx' = idx + 1
    /\ UNCHANGED <<caller, request, message, sock, sent, recving, talking, net, arrived,
                   data>>

\* line 187: return eoa
DiscoverReturn ==
    /\ caller = "discover" /\ pc = "D_loop"
    /\ idx > Len(data)
    /\ pc' = "D_done"
    /\ UNCHANGED <<caller, proc, err, request, message, wire, rx, sock, sent, recving,
                   talking, net, arrived, data, idx, dispatched, eoa>>

Next ==
    \/ CallBuildEchonetMsg
    \/ CallFromHex
    \/ CallDecodeEchonetMsg
    \/ DiscoverBuild
    \/ SocketCreate
    \/ SocketBind
    \/ SocketBindFails
    \/ SocketConfigure
    \/ SendTo
    \/ SendToFails
    \/ RecvFrom
    \/ RecvTimeout
    \/ SocketClose
    \/ Arrive
    \/ DiscoverNode
    \/ DiscoverReturn

Spec == Init /\ [][Next]_vars

-----------------------------------------------------------------------------
(* SendMessage under an endless stream of datagrams *)

\* What the loop of lines 143-150 does next never depends on the contents of
\* data, so the specification below, which is about the loop ending, records
\* the first MaxReplies entries of data only, and arrived not at all.  The
\* datagrams may then keep coming without end.

LiveDatagrams == { [server |-> ServerOf(p), payload |-> p] : p \in {Good1, OtherTID} }

\* a node sends a datagram; the socket queues at most MaxQueue of them
ArriveLive ==
    /\ sock = "bound" /\ talking
    /\ Len(net) < MaxQueue
    /\ \E d \in LiveDatagrams : net' = Append(net, d)
    /\ UNCHANGED <<caller, pc, proc, err, request, message, wire, rx, sock, sent, recving,
                   talking, arrived, data, idx, dispatched, eoa>>

\* the nodes stop sending for good
Silence ==
    /\ talking
    /\ talking' = FALSE
    /\ UNCHANGED <<caller, pc, proc, err, request, message, wire, rx, sock, sent, recving,
                   net, arrived, data, idx, dispatched, eoa>>

\* lines 145, 150, with the entries of data past MaxReplies left out
RecvFromLive ==
    /\ caller = "discover" /\ pc = "S_recv"
    /\ net # <<>>
    /\ data' = IF Len(data) < MaxReplies
               THEN Collect(data, Head(net).payload, Head(net).server)
               ELSE data
    /\ net' = Tail(net)
    /\ recving' = TRUE
    /\ UNCHANGED <<caller, pc, proc, err, request, message, wire, rx, sock, sent, talking,
                   arrived, idx, dispatched, eoa>>

\* a caller runs SendMessage(message, ENL_MULTICAST_ADDRESS) with the message
\* of Discover
InitSendMessage ==
    /\ caller = "discover"
    /\ pc = "S_socket"
    /\ request = tx_payload
    /\ message = BuildEchonetMsg(tx_payload)
    /\ wire = <<>>
    /\ Idle

\* the steps of the program: Python runs them one after the other, and each
\* recvfrom ends within 0.5 s, with a datagram or with socket.timeout
LiveProgram ==
    \/ SocketCreate
    \/ SocketBind
    \/ SocketBindFails
    \/ SocketConfigure
    \/ SendTo
    \/ SendToFails
    \/ RecvFromLive
    \/ RecvTimeout
    \/ SocketClose

LiveNext ==
    \/ SocketCreate
    \/ SocketBind
    \/ SocketBindFails
    \/ SocketConfigure
    \/ SendTo
    \/ SendToFails
    \/ RecvFromLive
    \/ RecvTimeout
    \/ SocketClose
    \/ ArriveLive
    \/ Silence

LiveSpec == InitSendMessage /\ [][LiveNext]_vars /\ WF_vars(LiveProgram)

-----------------------------------------------------------------------------
(* Properties of the codec *)

Pow256(n) == IF n = 0 THEN 1 ELSE IF n = 1 THEN 256 ELSE IF n = 2 THEN 65536 ELSE 16777216

\* v as n bytes, most significant first
ToBytes(v, n) == [i \in 1..n |-> (v \div Pow256(n - i)) % 256]

Registered(d) ==
    /\ d.DEOJGC \in GROUP
    /\ d.DEOJCC \in CLASS[d.DEOJGC]
    /\ d.ESV \in CODES

WellFormedEntry(v) ==
    /\ v.EPC \in 0..255
    /\ v.PDC \in 0..255
    /\ v.hasPDC /\ v.PDC > 0 => v.EDT < Pow256(v.PDC)

WellFormed(d) ==
    /\ d.TID \in 0..65535
    /\ d.DEOJIC \in 0..255
    /\ Registered(d)
    /\ Len(d.OPC) <= 255
    /\ \A i \in 1..Len(d.OPC) : WellFormedEntry(d.OPC[i])

\* the payload an entry of the request stands for
Payload(v) == IF v.hasPDC /\ v.PDC > 0 THEN ToBytes(v.EDT, v.PDC) ELSE <<>>

RoundTrip(d, r) ==
    /\ r.TID = d.TID
    /\ r.DEOJGC = d.DEOJGC /\ r.DEOJCC = d.DEOJCC /\ r.DEOJIC = d.DEOJIC
    /\ r.ESV = d.ESV
    /\ Len(r.OPC) = Len(d.OPC)
    /\ \A i \in 1..Len(d.OPC) :
          /\ r.OPC[i].EPC = d.OPC[i].EPC
          /\ r.OPC[i].PDC = (IF d.OPC[i].hasPDC THEN d.OPC[i].PDC ELSE 0)
          /\ r.OPC[i].EDT = Payload(d.OPC[i])

\* C1: decoding the bytes BuildEchonetMsg made of a well-formed request gives
\* back TID, DEOJ, ESV and every property entry, payload bytes included.
C1_RoundTrip ==
    (caller = "codec" /\ WellFormed(request) /\ pc \in {"done", "exit", "raised"})
        => /\ pc = "done"
           /\ rx.outcome = "return"
           /\ RoundTrip(request, rx.data)

\* a payload that starts with a zero byte went through the round trip
C1_Witness ==
    /\ caller = "codec" /\ pc = "done" /\ WellFormed(request)
    /\ Len(request.OPC) = 2
    /\ request.OPC[1].PDC = 2 /\ request.OPC[1].EDT = 5
    /\ rx.data.OPC[1].EDT = <<0, 5>>
    /\ request.TID = 0

\* C2: a request BuildEchonetMsg must reject gives its caller an InvalidRequest
\* error, and the process keeps running.
C2_InvalidRequestReturned ==
    (caller = "codec" /\ pc # "build" /\ ~(request.TID <= 65535 /\ Registered(request)))
        => /\ message.outcome = "InvalidRequest"
           /\ proc = "running"

\* C3: an input of fewer than 12 bytes ends in MalformedFrame, and no indexing
\* fault reaches the caller.
C3_ShortInputMalformed ==
    (pc \in {"done", "exit", "raised"} /\ rx.outcome # "none" /\ Len(wire) < 12)
        => /\ rx.outcome = "MalformedFrame"
           /\ err # "IndexError"

\* the bytes of byte needed by the n property entries that start at p, or -1
\* when the input ends inside an entry's code or length
RECURSIVE Needed(_, _, _)
Needed(byte, n, p) ==
    IF n = 0 THEN p
    ELSE IF p + 1 >= Len(byte) THEN 0 - 1
    ELSE Needed(byte, n - 1, p + 2 + At(byte, p + 1))

\* valid headers, and a property list that runs past the end of the input
TruncatedList(byte) ==
    /\ Len(byte) >= 12
    /\ At(byte, 0) \in EHD1 /\ At(byte, 1) \in EHD2
    /\ LET n == Needed(byte, At(byte, 11), 12) IN n = 0 - 1 \/ n > Len(byte)

\* C4: a property list that runs past the end of the input is a MalformedFrame,
\* so every frame DecodeEchonetMsg returns has len(EDT) = PDC in every entry.
C4_TruncatedMalformed ==
    (pc \in {"done", "exit", "raised"} /\ rx.outcome # "none")
        => /\ TruncatedList(wire) => rx.outcome = "MalformedFrame"
           /\ rx.outcome = "return" =>
                \A i \in 1..Len(rx.data.OPC) :
                    Len(rx.data.OPC[i].EDT) = rx.data.OPC[i].PDC

-----------------------------------------------------------------------------
(* Properties of SendMessage and Discover *)

\* a frame whose property list ends exactly at the end of the input
WellFormedReply(byte) ==
    /\ Len(byte) >= 12
    /\ At(byte, 0) \in EHD1 /\ At(byte, 1) \in EHD2
    /\ Needed(byte, At(byte, 11), 12) = Len(byte)

\* a well-formed reply to the request of Discover: its TID, the Node-Profile
\* object 0E F0 as its source, 0xD6 as its first property
Matching(byte) ==
    /\ WellFormedReply(byte)
    /\ 256 * At(byte, 2) + At(byte, 3) = 1
    /\ At(byte, 4) = 14 /\ At(byte, 5) = 240
    /\ At(byte, 11) >= 1
    /\ At(byte, 12) = 214

IsMatching(node) == Matching(node.payload)

\* the addresses of the matching replies, in the order of data
MatchingAddrs(d) ==
    LET m == SelectSeq(d, IsMatching) IN [i \in 1..Len(m) |-> m[i].server[1]]

\* the addresses of the devices of eoa, in order
DeviceAddrs(e) == [i \in 1..Len(e) |-> e[i].ip]

\* Discover has ended: it returned, raised in its loop, or quit in its loop
DiscoverEnded ==
    /\ caller = "discover"
    /\ pc \in {"D_done", "D_raised"} \/ (pc = "exit" /\ sock = "closed")

\* SendMessage has ended, by return or by an exception
SendMessageEnded ==
    /\ caller = "discover"
    /\ pc \in {"S_raised", "D_loop", "D_done", "D_raised"} \/ (pc = "exit" /\ sock # "none")

\* C5: over well-formed replies Discover returns one device for each matching
\* reply and none for the others, in the order of arrival.
C5_OneDevicePerMatchingReply ==
    (DiscoverEnded /\ \A i \in 1..Len(data) : WellFormedReply(data[i].payload))
        => /\ pc = "D_done"
           /\ DeviceAddrs(eoa) = MatchingAddrs(data)

\* C6: a reply that does not decode, has no property or has no handler is
\* dropped without an exception and without ending the process, and the valid
\* matching replies around it still give their devices.
C6_BadReplyDiscarded ==
    DiscoverEnded
        => /\ pc = "D_done"
           /\ proc = "running"
           /\ err = "none"
           /\ DeviceAddrs(eoa) = MatchingAddrs(data)

\* C7: once a call of SendMessage has ended, however it ended, its socket is
\* closed.
C7_SocketReleased ==
    (SendMessageEnded /\ sock # "none") => sock = "closed"

\* C8: every reply Discover dispatches has the Node-Profile object, group
\* 0x0E and class 0xF0, as its source.
C8_SourceIsNodeProfile ==
    \A i \in 1..Len(dispatched) :
        dispatched[i].SEOJGC = 14 /\ dispatched[i].SEOJCC = 240

\* C8, amended: every reply Discover dispatches has source group 0x0E, the
\* group of the request's destination; a reply of another source group is
\* passed over without an exception, and eoa holds devices of dispatched
\* replies only.  The source class is not compared.
C8_SourceGroupIsProfile ==
    caller = "discover"
        => /\ \A i \in 1..Len(dispatched) : dispatched[i].SEOJGC = tx_payload.DEOJGC
           /\ Len(eoa) <= Len(dispatched)
           /\ (rx.outcome = "return" /\ rx.data.SEOJGC # tx_payload.DEOJGC)
                 => pc \in {"D_loop", "D_done"} /\ err = "none"

\* a reply with the TID and the property of the request and another source
\* group came after a matching one, and only the matching one was dispatched
C8_Witness ==
    /\ caller = "discover" /\ pc = "D_done"
    /\ Len(data) = 2
    /\ data[1].payload = Good1 /\ data[2].payload = OtherGroup
    /\ rx.data.SEOJGC = 1 /\ rx.data.TID = 1 /\ rx.data.OPC[1].EPC = 214
    /\ Len(dispatched) = 1 /\ Len(eoa) = 1

\* the frame of Discover: 10 81 00 01 05 ff 01 0e f0 00 62 01 d6 00
DiscoverFrame == <<16, 129, 0, 1, 5, 255, 1, 14, 240, 0, 98, 1, 214, 0>>

\* C9: SendMessage sends the frame once, before it receives; its result is
\* the datagrams that reached the socket, in order, without those still
\* waiting when the receive timed out; with nothing received the result is
\* empty, no error is raised and Discover returns an empty list.
C9_ExchangeCollectsInOrder ==
    caller = "discover"
        => /\ Len(sent) <= 1
           /\ recving => Len(sent) = 1
           /\ sent # <<>> =>
                 /\ sent[1].payload = DiscoverFrame
                 /\ sent[1].to = <<"224.0.23.0", 3610>>
           /\ data \o net = arrived
           /\ pc \in {"D_loop", "D_done", "D_raised"} =>
                 /\ Len(sent) = 1 /\ recving
                 /\ sock = "closed"
           /\ (pc \in {"D_loop", "D_done"} /\ data = <<>>) => err = "none" /\ eoa = <<>>
           /\ data = <<>> => pc # "D_raised"

\* SendMessage returned two different datagrams, and one more was still waiting
C9_Witness ==
    /\ caller = "discover" /\ pc = "D_loop" /\ idx = 1
    /\ Len(data) = 2
    /\ data[1].payload = OtherTID /\ data[2].payload = Good2
    /\ err = "none"

\* Discover returned the empty list after a first receive that timed out
C9_WitnessEmpty ==
    /\ caller = "discover" /\ pc = "D_done"
    /\ data = <<>> /\ arrived = <<>> /\ eoa = <<>>

\* C10: every call of SendMessage ends, whatever the datagrams do.
C10_AlwaysReturns == <>SendMessageEnded

\* C10, amended: once the nodes stop sending, SendMessage ends: the timeout
\* bounds each recvfrom, not the collection, and while datagrams keep coming
\* less than 0.5 s apart the loop goes on.
C10_ReturnsOnceSilent == (~talking) ~> SendMessageEnded

\* SendMessage returned, after the nodes fell silent, what it had received
C10_Witness ==
    /\ caller = "discover" /\ pc = "D_loop"
    /\ ~talking
    /\ Len(data) = MaxReplies
    /\ sock = "closed"

====
